---- MODULE Spec2Model ----
(***************************************************************************)
(* Model of jira_converter.py: the calendar-week grid, the distribution of *)
(* a task's estimate over weeks, the worker and department aggregation and *)
(* the report layout derived by Scheduler.generate_data.                   *)
(*                                                                         *)
(* Dates are proleptic Gregorian ordinals (datetime.date.toordinal()).     *)
(* Workload numbers are fixed-point integers with four decimals: the value *)
(* x is held as x * Scale, which is exact for every number the program     *)
(* rounds with round(x, 4).                                                *)
(***************************************************************************)
EXTENDS Integers, Sequences, FiniteSets, TLC

(***************************************************************************)
(* Bounds of the model.                                                    *)
(***************************************************************************)
FirstYear == 2012
NumYears == 2
MaxDepartments == 2
MaxWorkers == 2
MaxTasks == 2
MaxTasksPerWorker == 2
MaxStartOffset == 1
MaxSpanWeeks == 1
NumWeekYears == 60

Years == FirstYear .. (FirstYear + NumYears - 1)
WeekYears == FirstYear .. (FirstYear + NumWeekYears - 1)

(***************************************************************************)
(* Evaluation helpers.                                                     *)
(***************************************************************************)
\* the element of a singleton: Only({ F(x) : x \in {v} }) is F(v) with v
\* computed once
Only(S) == CHOOSE r \in S : TRUE

\* a list built by a comprehension
List(f) == f \o << >>

(***************************************************************************)
(* datetime.date and calendar arithmetic.                                  *)
(***************************************************************************)
IsLeap(y) == (y % 4 = 0) /\ ((y % 100 # 0) \/ (y % 400 = 0))

DaysInMonth(y, m) ==
    IF m = 2 THEN (IF IsLeap(y) THEN 29 ELSE 28)
    ELSE IF m \in {4, 6, 9, 11} THEN 30 ELSE 31

DaysBeforeYear(y) ==
    365 * (y - 1) + ((y - 1) \div 4) - ((y - 1) \div 100) + ((y - 1) \div 400)

\* the days of a common year before the first day of each month
DAYS_BEFORE_MONTH == <<0, 31, 59, 90, 120, 151, 181, 212, 243, 273, 304, 334>>

\* the days of the year before the first day of month m
DaysBeforeMonth(y, m) == DAYS_BEFORE_MONTH[m] + (IF m > 2 /\ IsLeap(y) THEN 1 ELSE 0)

\* date(y, m, d).toordinal()
Ordinal(y, m, d) == DaysBeforeYear(y) + DaysBeforeMonth(y, m) + d

\* date.weekday(): Monday is 0, Sunday is 6
Weekday(o) == (o + 6) % 7

\* the year of an ordinal from an estimate y0 that is off by one at most
YearNear(o, y0) ==
    IF o > DaysBeforeYear(y0 + 1) THEN y0 + 1
    ELSE IF o <= DaysBeforeYear(y0) THEN y0 - 1
    ELSE y0

\* date.year; 400 years have 146097 days
YearOf(o) == Only({ YearNear(o, y0) : y0 \in {(((o - 1) * 400) \div 146097) + 1} })

\* the month of the n-th day (from 0) of year y, from an estimate that is
\* the month or the one after it
MonthNear(y, n, month) == IF DaysBeforeMonth(y, month) > n THEN month - 1 ELSE month

MonthInYear(y, n) == MonthNear(y, n, (n + 50) \div 32)

\* date.month
MonthOf(o) == Only({ MonthInYear(y, o - DaysBeforeYear(y) - 1) : y \in {YearOf(o)} })

\* calendar.month_name[1:]
month_name ==
    <<"January", "February", "March", "April", "May", "June", "July",
      "August", "September", "October", "November", "December">>

(***************************************************************************)
(* Sequence helpers: Python list and dict idioms.                          *)
(***************************************************************************)
Range(s) == { s[i] : i \in DOMAIN s }

RECURSIVE Flatten(_)
Flatten(ss) == IF ss = << >> THEN << >> ELSE Head(ss) \o Flatten(Tail(ss))

RECURSIVE SumSeq(_)
SumSeq(s) == IF s = << >> THEN 0 ELSE Head(s) + SumSeq(Tail(s))

Indices(s) == List([i \in DOMAIN s |-> i])

Pick(s, at) == List([k \in DOMAIN at |-> s[at[k]]])

\* a variant of Unique for a list in place of the dict: every entry is kept
EveryEntry(s) == s

\* the keys of a dict built from a list, in insertion order: each element
\* once, at the place of its first occurrence
Unique(s) ==
    Pick(s, SelectSeq(Indices(s), LAMBDA i : \A j \in 1 .. (i - 1) : s[j] # s[i]))

\* list.index(x), 0-based; -1 stands for the ValueError of a miss
IndexOf(s, x) ==
    IF \E i \in DOMAIN s : s[i] = x
    THEN (CHOOSE i \in DOMAIN s : s[i] = x /\ \A j \in 1 .. (i - 1) : s[j] # x) - 1
    ELSE -1

\* sorted(seq, key=...) on a sequence of (key, item) pairs with integer keys:
\* a stable sort
RECURSIVE InsertByKey(_, _)
InsertByKey(sorted, x) ==
    IF sorted = << >> THEN <<x>>
    ELSE IF x[1] < sorted[Len(sorted)][1]
         THEN InsertByKey(SubSeq(sorted, 1, Len(sorted) - 1), x) \o <<sorted[Len(sorted)]>>
         ELSE sorted \o <<x>>

RECURSIVE SortPairsByKey(_)
SortPairsByKey(s) ==
    IF s = << >> THEN << >>
    ELSE InsertByKey(SortPairsByKey(SubSeq(s, 1, Len(s) - 1)), s[Len(s)])

Second(items) == List([i \in DOMAIN items |-> items[i][2]])

\* the items of the (key, item) pairs in ascending order of key
SortedByKey(s) == Only({ Second(items) : items \in {SortPairsByKey(s)} })

\* sorted(...) of (start, end) tuples: ascending, the tuple order of Python
PairLess(p, q) == p[1] < q[1] \/ (p[1] = q[1] /\ p[2] < q[2])

\* a variant of DropRepeats for a list built without set(): every element is kept
SortedKeepingRepeats(sorted) == sorted

\* a sorted list without its repeats
DropRepeats(sorted) ==
    Pick(sorted, SelectSeq(Indices(sorted), LAMBDA i : i = 1 \/ sorted[i] # sorted[i - 1]))

\* sorted(set(weeks)): the pairs in ascending order, each once
SortedSet(weeks) == Only({ DropRepeats(sorted) : sorted \in {SortSeq(weeks, PairLess)} })

\* the k weeks from the Monday m0 on
WeeksFrom(m0, k) == List([i \in 1 .. k |-> <<m0 + 7 * (i - 1), m0 + 7 * (i - 1) + 6>>])

\* calendar.Calendar(0).monthdatescalendar(year, month), each week reduced to
\* (x[0], x[-1]) as line 55 does: the Monday-to-Sunday weeks that hold a day
\* of the month, in calendar order
MonthDatesCalendar(year, month) ==
    LET first == Ordinal(year, month, 1)
        last == Ordinal(year, month, DaysInMonth(year, month))
        monday == first - Weekday(first)
    IN  WeeksFrom(monday, ((last - monday) \div 7) + 1)

\* lines 53-56: the dict {week start: week end} in insertion order, held as
\* the sequence of its (start, end) items
WeeksOfYear(year) ==
    SortedSet(Flatten(List([month_i \in 1 .. 12 |-> MonthDatesCalendar(year, month_i)])))

\* the function has no state: its value for each year of the model is
\* computed once
WeeksTable == List([k \in 1 .. NumWeekYears |-> WeeksOfYear(FirstYear + k - 1)])

\* get_weeks_for_year
get_weeks_for_year(year) ==
    IF year \in WeekYears THEN WeeksTable[year - FirstYear + 1] ELSE WeeksOfYear(year)

(***************************************************************************)
(* Numbers.                                                                *)
(***************************************************************************)
\* round(x, 4): four decimals are kept, so x is held as x * Scale
Scale == 10000

\* Const.Scheduler
WORK_HOURS_PER_DAY == 8
WORK_DAYS_PER_WEEK == 5

Abs(x) == IF x < 0 THEN -x ELSE x

\* the integer nearest to a / b for b > 0 (round() of the quotient at the
\* fixed-point scale); an exact tie goes to the even neighbour
RoundDiv(a, b) ==
    LET q == a \div b
        r == a - q * b
    IN  IF 2 * r > b THEN q + 1
        ELSE IF 2 * r < b THEN q
        ELSE IF q % 2 = 0 THEN q ELSE q + 1

(***************************************************************************)
(* Results of calls: a value, or the exception the call raises.            *)
(***************************************************************************)
Ok(v) == [raised |-> "", value |-> v]
Raise(e) == [raised |-> e, value |-> << >>]

\* the first exception of a sequence of results, "" when none raises
FirstRaised(rs) ==
    IF \E i \in DOMAIN rs : rs[i].raised # ""
    THEN rs[CHOOSE i \in DOMAIN rs :
                rs[i].raised # "" /\ \A j \in 1 .. (i - 1) : rs[j].raised = ""].raised
    ELSE ""

Values(rs) == List([k \in DOMAIN rs |-> rs[k].value])

(***************************************************************************)
(* Worker                                                                  *)
(***************************************************************************)
\* line 190 and the loop of lines 198-199: zeros, and workload in the
\* weeks_for_task entries from task_start_week_index (0-based) on
FillWeeks(n_weeks, task_start_week_index, weeks_for_task, workload) ==
    List([i \in 1 .. n_weeks |->
            IF task_start_week_index < i /\ i <= task_start_week_index + weeks_for_task
            THEN workload ELSE 0])

\* lines 196-199
SpreadTask(task, weeks, weeks_for_task, task_start_week_index) ==
    IF weeks_for_task = 0 THEN Raise("ZeroDivisionError")
    ELSE IF task_start_week_index = -1 THEN Raise("ValueError")
    ELSE IF task_start_week_index + weeks_for_task > Len(weeks) THEN Raise("IndexError")
    ELSE Ok(FillWeeks(Len(weeks), task_start_week_index, weeks_for_task,
                      RoundDiv(task.estimate * Scale,
                               WORK_DAYS_PER_WEEK * WORK_HOURS_PER_DAY * weeks_for_task)))

\* line 194
WeeksForTask(task, task_start_monday) ==
    Abs((-(task.date_end - task_start_monday)) \div 7)

\* a variant of TaskStartMonday without the step back to the Monday
StartDayItself(task) == task.date_start

\* line 193
TaskStartMonday(task) == task.date_start - Weekday(task.date_start)

\* lines 193-199: one task's weekly workload over the weeks of the year
TaskWorkload(task, weeks) ==
    Only({ SpreadTask(task, weeks, weeks_for_task, task_start_week_index) :
             weeks_for_task \in {WeeksForTask(task, TaskStartMonday(task))},
             task_start_week_index \in
                 {IndexOf(List([i \in DOMAIN weeks |-> weeks[i][1]]), TaskStartMonday(task))} })

\* the items of the dict {task: workload}
WorkloadItems(keys, each) ==
    IF FirstRaised(each) # "" THEN Raise(FirstRaised(each))
    ELSE Ok(List([k \in DOMAIN keys |-> [task |-> keys[k], workload |-> each[k].value]]))

WorkloadOfEach(keys, weeks, registry) ==
    Only({ WorkloadItems(keys, each) :
             each \in {List([k \in DOMAIN keys |-> TaskWorkload(registry[keys[k]], weeks)])} })

\* Worker.get_workload_by_tasks_for_year: the dict {task: workload list} as
\* the sequence of its items; a task is a reference into the task registry
get_workload_by_tasks_for_year(worker, year, registry) ==
    Only({ WorkloadOfEach(keys, weeks, registry) :
             keys \in {Unique(worker.tasks)}, weeks \in {get_weeks_for_year(year)} })

\* a variant of SumByWeek that reads the first task of the dict alone
SumOfFirstTask(workload_by_tasks, n_weeks) ==
    IF workload_by_tasks.raised # "" THEN Raise(workload_by_tasks.raised)
    ELSE Ok(List([i \in 1 .. n_weeks |->
                IF workload_by_tasks.value = << >> THEN 0
                ELSE workload_by_tasks.value[1].workload[i]]))

\* line 217; round(..., 4) of a sum of numbers of four decimals is the sum
SumByWeek(workload_by_tasks, n_weeks) ==
    IF workload_by_tasks.raised # "" THEN Raise(workload_by_tasks.raised)
    ELSE Ok(List([i \in 1 .. n_weeks |->
                SumSeq(List([k \in DOMAIN workload_by_tasks.value |->
                                workload_by_tasks.value[k].workload[i]]))]))

\* Worker.get_workload_summary_for_year
get_workload_summary_for_year(worker, year, registry) ==
    Only({ SumByWeek(workload_by_tasks, n_weeks) :
             workload_by_tasks \in {get_workload_by_tasks_for_year(worker, year, registry)},
             n_weeks \in {Len(get_weeks_for_year(year))} })

(***************************************************************************)
(* Department                                                              *)
(***************************************************************************)
\* a variant of MeanByWeek without the division by len(x)
SumNotDivided(result) ==
    IF FirstRaised(result) # ""
    THEN [raised |-> FirstRaised(result), none |-> FALSE, value |-> << >>]
    ELSE [raised |-> "", none |-> FALSE,
          value |-> List([i \in 1 .. Len(result[1].value) |->
                        SumSeq(List([k \in DOMAIN result |-> result[k].value[i]]))])]

\* lines 263-264
MeanByWeek(result) ==
    IF FirstRaised(result) # ""
    THEN [raised |-> FirstRaised(result), none |-> FALSE, value |-> << >>]
    ELSE [raised |-> "", none |-> FALSE,
          value |-> List([i \in 1 .. Len(result[1].value) |->
                        RoundDiv(SumSeq(List([k \in DOMAIN result |-> result[k].value[i]])),
                                 Len(result))])]

\* Department.get_department_workload: None for a department without workers
get_department_workload(department, year, staff, registry) ==
    IF department.workers = << >> THEN [raised |-> "", none |-> TRUE, value |-> << >>]
    ELSE Only({ MeanByWeek(result) :
                  result \in {List([k \in DOMAIN department.workers |->
                      get_workload_summary_for_year(staff[department.workers[k]],
                                                    year, registry)])} })

(***************************************************************************)
(* Scheduler.generate_data                                                 *)
(***************************************************************************)
\* a cell of the generated data: a str or a number (int or float)
Str(x) == [str |-> x]
Num(x) == [num |-> x]
IsNumber(cell) == "num" \in DOMAIN cell

Blanks(n) == List([i \in 1 .. n |-> Str("")])
Cells(values) == List([i \in DOMAIN values |-> Num(values[i])])

base_headers == <<Str("Worker"), Str("Task name"), Str("Task key")>>

\* the order of the str values used as sort keys
StrOrder == <<"Dev", "Ops", "QA", "a.ivanov", "b.petrov", "c.sidorov">>
StrRank(x) == IndexOf(StrOrder, x)

\* lines 335-342 for one week
MonthIndexFor(week_start, week_end, start_month, end_month, year_global) ==
    IF start_month = end_month THEN start_month
    ELSE IF YearOf(week_start) = year_global - 1 THEN 1
    ELSE IF YearOf(week_end) = year_global + 1 THEN 12
    ELSE start_month

\* lines 335-342: the month (1..12) a week is listed under; year_global is the
\* module-level YEAR, not the year the report is generated for
MonthIndexOfWeek(week, year_global) ==
    Only({ MonthIndexFor(week[1], week[2], start_month, end_month, year_global) :
             start_month \in {MonthOf(week[1])}, end_month \in {MonthOf(week[2])} })

WeeksOfMonth(weeks, month_of, m) ==
    Pick(weeks, SelectSeq(Indices(weeks), LAMBDA i : month_of[i] = m))

\* lines 331-342: months_weeks_mapping, the weeks of each month in the order
\* they were appended
MonthsWeeksMapping(weeks, year_global) ==
    Only({ List([m \in 1 .. 12 |-> WeeksOfMonth(weeks, month_of, m)]) :
             month_of \in {List([i \in DOMAIN weeks |->
                                   MonthIndexOfWeek(weeks[i], year_global)])} })

\* lines 343-346
MonthHeaders(months_weeks_mapping) ==
    Flatten(List([m \in 1 .. 12 |->
                <<Str(month_name[m])>> \o Blanks(Len(months_weeks_mapping[m]) - 1)]))

\* lines 357-358: the departments that get rows, in row order
ListedDepartments(depts, staff) ==
    SelectSeq(SortedByKey(List([i \in DOMAIN depts |->
                                  <<StrRank(depts[i].name), depts[i]>>])),
              LAMBDA department :
                  /\ department.workers # << >>
                  /\ \E k \in DOMAIN department.workers :
                         staff[department.workers[k]].tasks # << >>)

\* line 365: the row of each task of the worker
TaskRows(worker, by_tasks, registry) ==
    List([k \in DOMAIN by_tasks |->
            <<Str(worker.name), Str(registry[by_tasks[k].task].name),
              Str(registry[by_tasks[k].task].key)>> \o Cells(by_tasks[k].workload)])

\* lines 363-365 on the results of the worker's two calls
WorkerBlock(worker, summary, by_tasks, registry) ==
    IF summary.raised # "" THEN Raise(summary.raised)
    ELSE IF by_tasks.raised # "" THEN Raise(by_tasks.raised)
    ELSE Ok(<<<<Str(worker.name), Str(""), Str("")>> \o Cells(summary.value)>>
            \o TaskRows(worker, by_tasks.value, registry))

\* lines 363-365: the row of a worker and the rows of the worker's tasks
WorkerRows(worker, year, registry) ==
    Only({ WorkerBlock(worker, summary, by_tasks, registry) :
             summary \in {get_workload_summary_for_year(worker, year, registry)},
             by_tasks \in {get_workload_by_tasks_for_year(worker, year, registry)} })

\* lines 359-365 on the rows of the members
DepartmentBlock(department, workload, blocks) ==
    IF FirstRaised(blocks) # "" THEN Raise(FirstRaised(blocks))
    ELSE Ok(<<<<Str(department.name), Str(""), Str("")>> \o Cells(workload.value)>>
            \o Flatten(Values(blocks)))

\* a variant of SortedWorkers without sorted(): the workers as they were added
WorkersAsAdded(department, staff) ==
    List([k \in DOMAIN department.workers |-> staff[department.workers[k]]])

\* line 362: the workers of the department in row order
SortedWorkers(department, staff) ==
    SortedByKey(List([k \in DOMAIN department.workers |->
                        <<StrRank(staff[department.workers[k]].username),
                          staff[department.workers[k]]>>]))

MemberRows(department, workload, members, year, registry) ==
    IF workload.raised # "" THEN Raise(workload.raised)
    ELSE Only({ DepartmentBlock(department, workload, blocks) :
                  blocks \in {List([k \in DOMAIN members |->
                                      WorkerRows(members[k], year, registry)])} })

\* lines 359-365: the rows of one listed department
DepartmentRows(department, year, staff, registry) ==
    Only({ MemberRows(department, workload, members, year, registry) :
             workload \in {get_department_workload(department, year, staff, registry)},
             members \in {SortedWorkers(department, staff)} })

\* a variant of StyleByValue with >= in place of > on line 407
StyleBadFromOne(value) ==
    IF value >= 1 * Scale THEN "Bad"
    ELSE IF 0 < value /\ value < 1 * Scale THEN "Neutral"
    ELSE "Good"

\* lines 407-412: the named style of a numeric cell
StyleByValue(value) ==
    IF value > 1 * Scale THEN "Bad"
    ELSE IF 0 < value /\ value < 1 * Scale THEN "Neutral"
    ELSE "Good"

\* the cords of one cell
Cell(row, col) == <<<<row, col>>, <<row, col>>>>

\* lines 348-353: the three header rows
Headers(weeks, months_weeks_mapping) ==
    << base_headers \o <<Str("Timeline")>>,
       Blanks(Len(base_headers)) \o MonthHeaders(months_weeks_mapping),
       Blanks(Len(base_headers)) \o List([i \in 1 .. Len(weeks) |-> Num(i * Scale)]) >>

\* line 360: the row of each listed department, blocks being the rows of each
DepartmentRow(blocks) ==
    List([k \in DOMAIN blocks |->
        3 + SumSeq(List([j \in 1 .. (k - 1) |-> Len(blocks[j].value)])) + 1])

\* lines 378-382: the merge region of month m
MonthMerge(months_weeks_mapping, m, temp) ==
    <<2, Len(base_headers) + 1 + temp,
      2, Len(base_headers) + 1 + temp + Len(months_weeks_mapping[m]) - 1>>

\* lines 370-387: merge_data
MergeData(data, weeks, months_weeks_mapping) ==
    <<<<1, 4, 1, Len(base_headers) + Len(weeks)>>>>
    \o List([header_i \in 1 .. Len(base_headers) |-> <<1, header_i, 3, header_i>>])
    \o List([m \in 1 .. 12 |->
               MonthMerge(months_weeks_mapping, m,
                          SumSeq(List([j \in 1 .. (m - 1) |->
                                         Len(months_weeks_mapping[j])])))])
    \o Pick(List([i \in 1 .. (Len(data) - 3) |-> <<i + 3, 1, i + 3, 3>>]),
            SelectSeq(List([i \in 1 .. (Len(data) - 3) |-> i]),
                      LAMBDA i : data[i + 3][2] = Str("")))

\* lines 361 and 394-399: the font entries of style_data
FontStyles(weeks, department_row) ==
    [cords \in { Cell(department_row[k], 1) : k \in DOMAIN department_row }
               \cup { << <<1, 1>>, <<1, Len(base_headers) + 1>> >>,
                      << <<2, Len(base_headers) + 1>>,
                         <<2, Len(base_headers) + Len(weeks) + 1>> >> } |->
        IF cords = << <<1, 1>>, <<1, Len(base_headers) + 1>> >>
        THEN [font |-> [bold |-> TRUE, size |-> 14]]
        ELSE IF cords = << <<2, Len(base_headers) + 1>>,
                           <<2, Len(base_headers) + Len(weeks) + 1>> >>
             THEN [font |-> [bold |-> TRUE, size |-> 12]]
             ELSE [font |-> [bold |-> TRUE]]]

\* lines 403-406: the cords of the numeric cells of the rows after the headers
NumericCells(data) ==
    UNION { { Cell(row, col) :
                col \in { col \in 4 .. Len(data[row]) : IsNumber(data[row][col]) } } :
            row \in (Len(base_headers) + 1) .. Len(data) }

\* lines 407-415: the entries of style_data set by the value of a cell
ValueStyles(data) ==
    [cords \in NumericCells(data) |->
        [style |-> StyleByValue(data[cords[1][1]][cords[1][2]].num),
         number_format |-> "0.00%"]]

\* dict.update of the entry of each key: the attributes of by_value are set
\* in the entry the key has, or in a new one
UpdateEach(fonts, by_value) ==
    [cords \in (DOMAIN fonts) \cap (DOMAIN by_value) |-> by_value[cords] @@ fonts[cords]]
        @@ fonts @@ by_value

\* lines 361, 390-400 and 403-415: the entries of style_data keyed by cords
StyleByCords(data, weeks, department_row) ==
    Only({ UpdateEach(fonts, by_value) :
             fonts \in {FontStyles(weeks, department_row)},
             by_value \in {ValueStyles(data)} })

WholeGrid(data, weeks, border, full) ==
    [cords |-> << <<1, 1>>, <<Len(data), Len(base_headers) + Len(weeks)>> >>,
     border |-> border, full |-> full]

\* lines 420-448: style_data['borders']
Borders(data, weeks, department_row, blocks) ==
    << WholeGrid(data, weeks, "thin", TRUE),
       WholeGrid(data, weeks, "medium", FALSE),
       [cords |-> << <<1, 1>>, <<3, Len(base_headers) + Len(weeks)>> >>,
        border |-> "medium", full |-> FALSE],
       [cords |-> << <<1, 1>>, <<Len(data), Len(base_headers)>> >>,
        border |-> "medium", full |-> FALSE] >>
    \o List([k \in DOMAIN blocks |->
              [cords |-> << <<department_row[k], 1>>,
                            <<department_row[k] + Len(blocks[k].value) - 1,
                              Len(base_headers) + Len(weeks)>> >>,
               border |-> "medium", full |-> FALSE]])

\* lines 369-456 on the rows: the returned tuple, with the locals weeks and
\* months_weeks_mapping
Returned(data, weeks, months_weeks_mapping, department_row, blocks) ==
    Ok([data |-> data,
        merge_data |-> MergeData(data, weeks, months_weeks_mapping),
        style_data |-> [all |-> [alignment |-> "center"],
                        borders |-> Borders(data, weeks, department_row, blocks),
                        cords |-> StyleByCords(data, weeks, department_row)],
        weeks |-> weeks,
        months_weeks_mapping |-> months_weeks_mapping])

\* lines 348-367 on the rows of the listed departments
Layout(weeks, months_weeks_mapping, blocks) ==
    IF FirstRaised(blocks) # "" THEN Raise(FirstRaised(blocks))
    ELSE Only({ Returned(data, weeks, months_weeks_mapping, department_row, blocks) :
                  data \in {Headers(weeks, months_weeks_mapping)
                              \o Flatten(Values(blocks))},
                  department_row \in {DepartmentRow(blocks)} })

RowsOf(listed, year, staff, registry) ==
    List([k \in DOMAIN listed |-> DepartmentRows(listed[k], year, staff, registry)])

\* lines 330-367 on the weeks of the year
Grid(weeks, year, year_global, depts, staff, registry) ==
    Only({ Layout(weeks, months_weeks_mapping, blocks) :
             months_weeks_mapping \in {MonthsWeeksMapping(weeks, year_global)},
             blocks \in {RowsOf(ListedDepartments(depts, staff), year, staff, registry)} })

\* Scheduler.generate_data(year) on the scheduler's departments; year_global
\* is the module-level YEAR that lines 337 and 339 read
generate_data(year, year_global, depts, staff, registry) ==
    Only({ Grid(weeks, year, year_global, depts, staff, registry) :
             weeks \in {get_weeks_for_year(year)} })

(***************************************************************************)
(* Inputs                                                                  *)
(***************************************************************************)
DepartmentNames == {"Dev", "QA"}
\* the k-th worker and the k-th task that are created
WorkerNames == <<"Petrov", "Ivanov", "Sidorov">>
Usernames == <<"b.petrov", "a.ivanov", "c.sidorov">>
TaskKeys == <<"PRJ-1", "PRJ-2", "PRJ-3">>
TaskNames == <<"Design", "Build", "Test">>
\* hours: one week of work and seven
Estimates == {40, 280}
\* days from the first of January to date_start, and from date_start to
\* date_end
StartOffsets == 0 .. MaxStartOffset
Spans == { 7 * k : k \in 0 .. MaxSpanWeeks }

(***************************************************************************)
(* State                                                                   *)
(*   YEAR         the module-level YEAR set from the command line          *)
(*   departments  Department objects: [name, workers], workers being       *)
(*                references (indices) into workers                        *)
(*   workers      Worker objects: [name, username, tasks], tasks being     *)
(*                references (indices) into tasks                          *)
(*   tasks        Task objects: [name, key, date_start, date_end, estimate]*)
(*   group        main's local group: the name of the department marker    *)
(*                seen last, None before the first                         *)
(*   worker_username  main's local worker_username: the key of the row     *)
(*                without status seen last, None before the first          *)
(*   pc           "build" while the entities are built, "done" after the   *)
(*                call whose result out holds                              *)
(*   out          the last call: [op, year, ...] and its result            *)
(***************************************************************************)
VARIABLES YEAR, departments, workers, tasks, group, worker_username, pc, out

vars == <<YEAR, departments, workers, tasks, group, worker_username, pc, out>>

\* Python's None where the model holds a str
None == "<None>"

Init ==
    /\ YEAR \in Years
    /\ departments = << >>
    /\ workers = << >>
    /\ tasks = << >>
    /\ group = None
    /\ worker_username = None
    /\ pc = "build"
    /\ out = [op |-> "none"]

\* Department(name), in main for a group not seen before (lines 633-635)
NewDepartment(name) ==
    /\ pc = "build"
    /\ Len(departments) < MaxDepartments
    /\ \A i \in DOMAIN departments : departments[i].name # name
    /\ departments' = Append(departments, [name |-> name, workers |-> << >>])
    /\ UNCHANGED <<YEAR, workers, tasks, group, worker_username, pc, out>>

\* Worker(name, username), in main for an assignee not seen before
NewWorker ==
    /\ pc = "build"
    /\ Len(workers) < MaxWorkers
    /\ workers' = Append(workers, [name |-> WorkerNames[Len(workers) + 1],
                                   username |-> Usernames[Len(workers) + 1],
                                   tasks |-> << >>])
    /\ UNCHANGED <<YEAR, departments, tasks, group, worker_username, pc, out>>

\* Task(...) for a key not seen before, its dates within YEAR (line 650),
\* then Worker.add_task
AddNewTask(w, start_offset, span, estimate) ==
    /\ pc = "build"
    /\ Len(tasks) < MaxTasks
    /\ Len(workers[w].tasks) < MaxTasksPerWorker
    /\ tasks' = Append(tasks,
                       [name |-> TaskNames[Len(tasks) + 1],
                        key |-> TaskKeys[Len(tasks) + 1],
                        date_start |-> Ordinal(YEAR, 1, 1) + start_offset,
                        date_end |-> Ordinal(YEAR, 1, 1) + start_offset + span,
                        estimate |-> estimate])
    /\ workers' = [workers EXCEPT ![w].tasks = Append(@, Len(tasks) + 1)]
    /\ UNCHANGED <<YEAR, departments, group, worker_username, pc, out>>

\* Worker.add_task with a task that exists (in main, a key seen before)
AddTask(w, t) ==
    /\ pc = "build"
    /\ Len(workers[w].tasks) < MaxTasksPerWorker
    /\ workers' = [workers EXCEPT ![w].tasks = Append(@, t)]
    /\ UNCHANGED <<YEAR, departments, tasks, group, worker_username, pc, out>>

\* Department.add_worker, as main calls it: for a worker not yet in it
AddWorker(d, w) ==
    /\ pc = "build"
    /\ \A k \in DOMAIN departments[d].workers : departments[d].workers[k] # w
    /\ departments' = [departments EXCEPT ![d].workers = Append(@, w)]
    /\ UNCHANGED <<YEAR, workers, tasks, group, worker_username, pc, out>>

\* a call of get_weeks_for_year(year)
GetWeeksForYear(year) ==
    /\ pc = "build"
    /\ pc' = "done"
    /\ out' = [op |-> "get_weeks_for_year", year |-> year,
               result |-> Ok(get_weeks_for_year(year))]
    /\ UNCHANGED <<YEAR, departments, workers, tasks, group, worker_username>>

\* a call of workers[w].get_workload_by_tasks_for_year(year)
GetWorkloadByTasks(w, year) ==
    /\ pc = "build"
    /\ pc' = "done"
    /\ out' = [op |-> "get_workload_by_tasks_for_year", year |-> year, worker |-> w,
               result |-> get_workload_by_tasks_for_year(workers[w], year, tasks)]
    /\ UNCHANGED <<YEAR, departments, workers, tasks, group, worker_username>>

\* a call of workers[w].get_workload_summary_for_year(year)
GetWorkloadSummary(w, year) ==
    /\ pc = "build"
    /\ pc' = "done"
    /\ out' = [op |-> "get_workload_summary_for_year", year |-> year, worker |-> w,
               result |-> get_workload_summary_for_year(workers[w], year, tasks)]
    /\ UNCHANGED <<YEAR, departments, workers, tasks, group, worker_username>>

\* a call of departments[d].get_department_workload(year)
GetDepartmentWorkload(d, year) ==
    /\ pc = "build"
    /\ pc' = "done"
    /\ out' = [op |-> "get_department_workload", year |-> year, department |-> d,
               result |-> get_department_workload(departments[d], year, workers, tasks)]
    /\ UNCHANGED <<YEAR, departments, workers, tasks, group, worker_username>>

\* Scheduler(departments, workers, tasks).generate_data(year)
GenerateData(year) ==
    /\ pc = "build"
    /\ pc' = "done"
    /\ out' = [op |-> "generate_data", year |-> year,
               result |-> generate_data(year, YEAR, departments, workers, tasks)]
    /\ UNCHANGED <<YEAR, departments, workers, tasks, group, worker_username>>

(***************************************************************************)
(* main: the ingestion loop over the rows of the input sheet (lines        *)
(* 621-691). A row is [key, summary, status, assignee, start_date,         *)
(* end_date, estimate]; the strings of the model have no blanks at their   *)
(* ends, so strip() leaves them as they are.                               *)
(***************************************************************************)
\* a cell without a date
NoDate == 0

\* the keys of the model that match r'\w\.\w+' or r'JIRAUSER\d+'
UserKeys == Range(Usernames) \cup {"JIRAUSER1"}

\* Task.is_jira_key
is_jira_key(key) == key \notin UserKeys

\* department marker rows: no key, the name of the group in Summary
GroupRows ==
    { [key |-> None, summary |-> name, status |-> None, assignee |-> None,
       start_date |-> NoDate, end_date |-> NoDate, estimate |-> 0] :
      name \in DepartmentNames }

\* assignee rows: the username as key, no status
UserRows ==
    { [key |-> Usernames[k], summary |-> WorkerNames[k], status |-> None,
       assignee |-> WorkerNames[k],
       start_date |-> NoDate, end_date |-> NoDate, estimate |-> 0] :
      k \in 1 .. MaxWorkers }

\* a task row with its status, dates and estimate
GoodRow(k, assignee, year) ==
    [key |-> TaskKeys[k], summary |-> TaskNames[k], status |-> "Open",
     assignee |-> assignee, start_date |-> Ordinal(year, 1, 1),
     end_date |-> Ordinal(year, 1, 1),
     estimate |-> WORK_DAYS_PER_WEEK * WORK_HOURS_PER_DAY]

\* task rows: the good ones, and one without status, one without dates, one
\* of the year before and one without estimate
IssueRows(year) ==
    UNION { { GoodRow(k, assignee, year),
              [GoodRow(k, assignee, year) EXCEPT !.status = None],
              [GoodRow(k, assignee, year) EXCEPT !.end_date = NoDate],
              [GoodRow(k, assignee, year) EXCEPT !.start_date = @ - 1],
              [GoodRow(k, assignee, year) EXCEPT !.estimate = 0] } :
            k \in 1 .. MaxTasks,
            assignee \in { WorkerNames[w] : w \in 1 .. MaxWorkers } }

InputRows(year) == GroupRows \cup UserRows \cup IssueRows(year)

\* lines 640-657: the row passes every filter of the loop
Accepted(row, year) ==
    /\ is_jira_key(row.key)
    /\ row.start_date # NoDate /\ row.end_date # NoDate
    /\ YearOf(row.start_date) = year /\ YearOf(row.end_date) = year
    /\ row.estimate # 0

\* lines 636-637
UsernameAfter(row, username) == IF row.status = None THEN row.key ELSE username

\* lines 663-673: tasks, with a new Task for a key not seen before
WithTask(registry, row) ==
    IF \E t \in DOMAIN registry : registry[t].key = row.key THEN registry
    ELSE Append(registry, [name |-> row.summary, key |-> row.key,
                           date_start |-> row.start_date,
                           date_end |-> row.end_date,
                           estimate |-> row.estimate])

\* lines 675-681: workers, with a new Worker for an assignee not seen before
WithWorker(staff, row, username) ==
    IF \E w \in DOMAIN staff : staff[w].name = row.assignee THEN staff
    ELSE Append(staff, [name |-> row.assignee, username |-> username,
                        tasks |-> << >>])

\* tasks[key] and workers[assignee] as references
TaskOf(registry, key) == CHOOSE t \in DOMAIN registry : registry[t].key = key
WorkerOf(staff, assignee) == CHOOSE w \in DOMAIN staff : staff[w].name = assignee

\* lines 683-686: workers[assignee].add_task(tasks[key])
WithTaskAdded(staff, w, t) == [staff EXCEPT ![w].tasks = Append(@, t)]

\* lines 688-690: the worker joins departments[group] when not yet in it
WithMember(depts, name, w) ==
    [d \in DOMAIN depts |->
        IF depts[d].name = name /\ \A k \in DOMAIN depts[d].workers :
                                       depts[d].workers[k] # w
        THEN [depts[d] EXCEPT !.workers = Append(@, w)]
        ELSE depts[d]]

\* lines 631-636: a department marker row
GroupMarker(row) ==
    /\ group' = row.summary
    /\ departments' =
          IF \E d \in DOMAIN departments : departments[d].name = row.summary
          THEN departments
          ELSE Append(departments, [name |-> row.summary, workers |-> << >>])
    /\ UNCHANGED <<YEAR, workers, tasks, worker_username, pc, out>>

\* lines 637-657: a row that a filter of the loop skips
SkippedRow(row) ==
    /\ worker_username' = UsernameAfter(row, worker_username)
    /\ UNCHANGED <<YEAR, departments, workers, tasks, group, pc, out>>

\* lines 659-690 on the registry and the staff the row leaves; without a
\* department marker before the row, departments[group] is a KeyError that
\* ends the program
AcceptedRow(row, registry, staff) ==
    /\ Len(staff[WorkerOf(staff, row.assignee)].tasks) < MaxTasksPerWorker
    /\ worker_username' = UsernameAfter(row, worker_username)
    /\ tasks' = registry
    /\ workers' = WithTaskAdded(staff, WorkerOf(staff, row.assignee),
                                TaskOf(registry, row.key))
    /\ IF group = None
       THEN /\ pc' = "done"
            /\ out' = [op |-> "main", result |-> Raise("KeyError")]
            /\ UNCHANGED departments
       ELSE /\ departments' = WithMember(departments, group,
                                         WorkerOf(staff, row.assignee))
            /\ UNCHANGED <<pc, out>>
    /\ UNCHANGED <<YEAR, group>>

\* one pass of the loop of main over a row of the sheet
IngestRow(row) ==
    /\ pc = "build"
    /\ IF row.key = None THEN GroupMarker(row)
       ELSE IF ~Accepted(row, YEAR) THEN SkippedRow(row)
       ELSE AcceptedRow(row, WithTask(tasks, row),
                        WithWorker(workers, row,
                                   UsernameAfter(row, worker_username)))

(***************************************************************************)
(* The calendar: get_weeks_for_year on each year of WeekYears.             *)
(***************************************************************************)
NextWeeks == \E year \in WeekYears : GetWeeksForYear(year)

SpecWeeks == Init /\ [][NextWeeks]_vars

(***************************************************************************)
(* Workers and their tasks: every start, span and estimate of the inputs,  *)
(* and the two calls of a worker.                                          *)
(***************************************************************************)
NextWorker ==
    \/ NewWorker
    \/ \E w \in DOMAIN workers, start_offset \in StartOffsets,
          span \in Spans, estimate \in Estimates :
            AddNewTask(w, start_offset, span, estimate)
    \/ \E w \in DOMAIN workers, t \in DOMAIN tasks : AddTask(w, t)
    \/ \E w \in DOMAIN workers, year \in Years : GetWorkloadByTasks(w, year)
    \/ \E w \in DOMAIN workers, year \in Years : GetWorkloadSummary(w, year)

SpecWorker == Init /\ [][NextWorker]_vars

(***************************************************************************)
(* Departments and the report: every way to group workers and tasks, each  *)
(* task being one week of work on the first day of YEAR.                   *)
(***************************************************************************)
Next ==
    \/ \E name \in DepartmentNames : NewDepartment(name)
    \/ NewWorker
    \/ \E w \in DOMAIN workers :
          AddNewTask(w, 0, 0, WORK_DAYS_PER_WEEK * WORK_HOURS_PER_DAY)
    \/ \E w \in DOMAIN workers, t \in DOMAIN tasks : AddTask(w, t)
    \/ \E d \in DOMAIN departments, w \in DOMAIN workers : AddWorker(d, w)
    \/ \E d \in DOMAIN departments, year \in Years : GetDepartmentWorkload(d, year)
    \/ \E year \in Years : GenerateData(year)

Spec == Init /\ [][Next]_vars

(***************************************************************************)
(* The ingestion: main's loop over every sequence of rows of the inputs.   *)
(***************************************************************************)
NextMain == \E row \in InputRows(YEAR) : IngestRow(row)

SpecMain == Init /\ [][NextMain]_vars

(***************************************************************************)
(* The edges of the year: a worker's tasks at the first and the last days  *)
(* of YEAR, for every year of WeekYears, and the worker's call for YEAR.   *)
(***************************************************************************)
InitAnyYear ==
    /\ YEAR \in WeekYears
    /\ departments = << >>
    /\ workers = << >>
    /\ tasks = << >>
    /\ group = None
    /\ worker_username = None
    /\ pc = "build"
    /\ out = [op |-> "none"]

\* the days from the first of January to the 31st of December
LastOffset(year) == Ordinal(year, 12, 31) - Ordinal(year, 1, 1)

\* date_start as days from the first of January: the first days of the year,
\* and the last ones
EdgeStarts(last) == StartOffsets \cup { last - k : k \in StartOffsets \cup Spans }

\* (start_offset, span) of the tasks inside a year whose 31st of December
\* is the day last: of one day, of MaxSpanWeeks weeks and a day, and up to
\* the 31st of December
ShapesUpTo(last) ==
    UNION { { <<start_offset, span>> :
                span \in { span \in Spans \cup {last - start_offset} :
                             start_offset + span <= last } } :
            start_offset \in EdgeStarts(last) }

EdgeShapes(year) == Only({ ShapesUpTo(last) : last \in {LastOffset(year)} })

NextYearEdges ==
    \/ NewWorker
    \/ \E w \in DOMAIN workers, shape \in EdgeShapes(YEAR) :
            AddNewTask(w, shape[1], shape[2], WORK_DAYS_PER_WEEK * WORK_HOURS_PER_DAY)
    \/ \E w \in DOMAIN workers : GetWorkloadByTasks(w, YEAR)

SpecYearEdges == InitAnyYear /\ [][NextYearEdges]_vars

(***************************************************************************)
(* What the calls returned.                                                *)
(***************************************************************************)
Called(op) == out.op = op
Returned_(op) == out.op = op /\ out.result.raised = ""

\* the 0-based index in weeks of the week that holds the day
WeekIndexOfDay(weeks, day) == IndexOf(List([i \in DOMAIN weeks |-> weeks[i][1]]),
                                      day - Weekday(day))

\* the week has a day of [date_start, date_end]
Touches(week, task) == week[1] <= task.date_end /\ task.date_start <= week[2]

\* the least number of whole weeks that hold the days
CeilWeeks(days) == (days + 6) \div 7

(***************************************************************************)
(* C1: for every year, get_weeks_for_year(year) returns 52 or 53 weeks.    *)
(* The statement as written; the calendar of a year has 53 weeks at least, *)
(* so it fails on every year of 54 weeks.                                  *)
(***************************************************************************)
C1_FiftyTwoOrFiftyThree ==
    Called("get_weeks_for_year") => Len(out.result.value) \in {52, 53}

(***************************************************************************)
(* C1, amended: for every year, get_weeks_for_year(year) returns 53 or 54  *)
(* weeks: the Monday-to-Sunday weeks that hold a day of the year, in       *)
(* ascending order, each once.                                             *)
(***************************************************************************)
C1_FiftyThreeOrFiftyFour ==
    Called("get_weeks_for_year") =>
        /\ Len(out.result.value) \in {53, 54}
        /\ \A i \in DOMAIN out.result.value :
              /\ Weekday(out.result.value[i][1]) = 0
              /\ out.result.value[i][2] = out.result.value[i][1] + 6
              /\ i > 1 => out.result.value[i][1] = out.result.value[i - 1][1] + 7
        /\ out.result.value[1][1] <= Ordinal(out.year, 1, 1)
        /\ Ordinal(out.year, 1, 1) <= out.result.value[1][2]
        /\ out.result.value[Len(out.result.value)][1] <= Ordinal(out.year, 12, 31)
        /\ Ordinal(out.year, 12, 31) <= out.result.value[Len(out.result.value)][2]

\* a leap year that begins on a Sunday has 54 weeks
C1_Witness ==
    /\ Called("get_weeks_for_year")
    /\ Len(out.result.value) = 54
    /\ IsLeap(out.year)
    /\ Weekday(Ordinal(out.year, 1, 1)) = 6

(***************************************************************************)
(* C2: for every task of the worker with date_start <= date_end inside the *)
(* target year, get_workload_by_tasks_for_year returns a sequence that is  *)
(* round(estimate / (40 * weeks_for_task), 4) at the weeks_for_task        *)
(* indices from the index of the Monday of date_start's week on, and 0     *)
(* elsewhere, weeks_for_task being ceil((date_end - start_monday) / 7).    *)
(* The tasks of the model lie inside YEAR with date_start <= date_end.     *)
(***************************************************************************)
C2_ClaimedWorkload(task, weeks) ==
    LET weeks_for_task == CeilWeeks(task.date_end - (task.date_start - Weekday(task.date_start)))
        start_index == WeekIndexOfDay(weeks, task.date_start)
    IN  [i \in DOMAIN weeks |->
            IF start_index < i /\ i <= start_index + weeks_for_task
            THEN RoundDiv(task.estimate * Scale, 40 * weeks_for_task)
            ELSE 0]

C2_WorkloadByTasks ==
    (Called("get_workload_by_tasks_for_year") /\ out.year = YEAR) =>
        /\ out.result.raised = ""
        /\ Len(out.result.value) = Cardinality(Range(workers[out.worker].tasks))
        /\ \A k \in DOMAIN out.result.value :
              /\ out.result.value[k].task \in Range(workers[out.worker].tasks)
              /\ out.result.value[k].workload =
                    C2_ClaimedWorkload(tasks[out.result.value[k].task],
                                       get_weeks_for_year(out.year))

(***************************************************************************)
(* C3: the estimate of a task is spread evenly over every calendar week it *)
(* touches: every Monday-to-Sunday week with a day of [date_start,         *)
(* date_end] gets the same workload, and no other week gets any.           *)
(***************************************************************************)
C3_SpreadOverTouched(task, workload, weeks) ==
    \E value \in { workload[i] : i \in DOMAIN workload } \ {0} :
        \A i \in DOMAIN weeks :
            workload[i] = (IF Touches(weeks[i], task) THEN value ELSE 0)

C3_EveryWeekTouched ==
    (Returned_("get_workload_by_tasks_for_year") /\ out.year = YEAR) =>
        \A k \in DOMAIN out.result.value :
            C3_SpreadOverTouched(tasks[out.result.value[k].task],
                                 out.result.value[k].workload,
                                 get_weeks_for_year(out.year))

(***************************************************************************)
(* C4: get_workload_summary_for_year(year) returns, for each week of the   *)
(* year, the sum over the worker's tasks of the workload of the task in    *)
(* that week; for a worker with no tasks, zeros, one for each week of the  *)
(* year.                                                                   *)
(***************************************************************************)
C4_SumOver(by_tasks, i) ==
    SumSeq([k \in DOMAIN by_tasks |-> by_tasks[k].workload[i]])

C4_SummaryOf(worker, year, value) ==
    \A by_tasks \in {get_workload_by_tasks_for_year(worker, year, tasks)} :
        /\ by_tasks.raised = ""
        /\ Len(value) = Len(get_weeks_for_year(year))
        /\ \A i \in DOMAIN value : value[i] = C4_SumOver(by_tasks.value, i)
        /\ worker.tasks = << >> => \A i \in DOMAIN value : value[i] = 0

C4_WorkloadSummary ==
    Returned_("get_workload_summary_for_year") =>
        C4_SummaryOf(workers[out.worker], out.year, out.result.value)

\* two tasks of the worker in one week: the week holds the sum of both
C4_Witness ==
    /\ Returned_("get_workload_summary_for_year")
    /\ Cardinality(Range(workers[out.worker].tasks)) = 2
    /\ \E i \in DOMAIN out.result.value :
          out.result.value[i] = 7 * Scale + Scale \div 2

(***************************************************************************)
(* C5: get_department_workload(year) returns, for each week of the year,   *)
(* the mean over all workers of the department of the summary of the       *)
(* worker in that week, rounded to four decimals; for a department with no *)
(* workers it returns None.                                                *)
(***************************************************************************)
C5_IsMean(value, total, n) == 2 * Abs(n * value - total) <= n

C5_MeanOf(summaries, year, value) ==
    /\ Len(value) = Len(get_weeks_for_year(year))
    /\ \A i \in DOMAIN value :
          C5_IsMean(value[i],
                    SumSeq([k \in DOMAIN summaries |-> summaries[k].value[i]]),
                    Len(summaries))

C5_Summaries(department, year) ==
    List([k \in DOMAIN department.workers |->
            get_workload_summary_for_year(workers[department.workers[k]], year, tasks)])

C5_DepartmentWorkload ==
    Called("get_department_workload") =>
        IF departments[out.department].workers = << >>
        THEN out.result.raised = "" /\ out.result.none
        ELSE out.result.raised = "" =>
                /\ ~out.result.none
                /\ \A summaries \in {C5_Summaries(departments[out.department], out.year)} :
                      C5_MeanOf(summaries, out.year, out.result.value)

\* a worker with a week of work and a worker with none: half a week each
C5_Witness ==
    /\ Returned_("get_department_workload")
    /\ Len(departments[out.department].workers) = 2
    /\ \E k \in DOMAIN departments[out.department].workers :
          workers[departments[out.department].workers[k]].tasks = << >>
    /\ \E i \in DOMAIN out.result.value : out.result.value[i] = Scale \div 2

(***************************************************************************)
(* C6: the rows of generate_data are three header rows and then, for the   *)
(* departments that have a worker with a task, in ascending order of name, *)
(* the department row and, for each worker of the department in ascending *)
(* order of username, the worker row and the worker's task rows in the     *)
(* order the tasks were added; the other departments have no row.          *)
(***************************************************************************)
C6_HasTask(department) ==
    \E k \in DOMAIN department.workers : workers[department.workers[k]].tasks # << >>

C6_InOrderAdded(ts) ==
    [k \in 1 .. Cardinality(Range(ts)) |->
        ts[CHOOSE i \in DOMAIN ts :
              /\ \A j \in 1 .. (i - 1) : ts[j] # ts[i]
              /\ Cardinality({ ts[j] : j \in 1 .. i }) = k]]

C6_WorkerLabels(worker) ==
    <<<<worker.name, "", "">>>>
    \o [k \in DOMAIN C6_InOrderAdded(worker.tasks) |->
          <<worker.name, tasks[C6_InOrderAdded(worker.tasks)[k]].name,
            tasks[C6_InOrderAdded(worker.tasks)[k]].key>>]

C6_ByUsername(department) ==
    SortSeq([k \in DOMAIN department.workers |-> workers[department.workers[k]]],
            LAMBDA a, b : StrRank(a.username) < StrRank(b.username))

C6_DepartmentLabels(department) ==
    <<<<department.name, "", "">>>>
    \o Flatten([k \in DOMAIN department.workers |->
                  C6_WorkerLabels(C6_ByUsername(department)[k])])

C6_ByName ==
    SortSeq(SelectSeq(departments, C6_HasTask),
            LAMBDA a, b : StrRank(a.name) < StrRank(b.name))

C6_Labels == Flatten([k \in DOMAIN C6_ByName |-> C6_DepartmentLabels(C6_ByName[k])])

C6_RowsAre(data, labels) ==
    /\ Len(data) = 3 + Len(labels)
    /\ data[1] = <<Str("Worker"), Str("Task name"), Str("Task key"), Str("Timeline")>>
    /\ \A c \in 1 .. 3 : data[2][c] = Str("") /\ data[3][c] = Str("")
    /\ \A r \in DOMAIN labels :
          \A c \in 1 .. 3 : data[3 + r][c] = Str(labels[r][c])

C6_RowOrder ==
    Returned_("generate_data") =>
        \A labels \in {C6_Labels} : C6_RowsAre(out.result.value.data, labels)

\* both departments have rows and were created in descending order of name;
\* one has its two workers, added in descending order of username, and a
\* worker has two tasks
C6_Witness ==
    /\ Returned_("generate_data")
    /\ Len(departments) = 2
    /\ StrRank(departments[1].name) > StrRank(departments[2].name)
    /\ \A d \in DOMAIN departments : C6_HasTask(departments[d])
    /\ \E d \in DOMAIN departments :
          /\ Len(departments[d].workers) = 2
          /\ StrRank(workers[departments[d].workers[1]].username)
                > StrRank(workers[departments[d].workers[2]].username)
    /\ \E w \in DOMAIN workers : Cardinality(Range(workers[w].tasks)) = 2

(***************************************************************************)
(* C7: generate_data emits one task row for each entry of the task list of *)
(* a worker: the task rows that follow the row of a worker are as many as  *)
(* the entries of the worker's task list. The statement as written; a task *)
(* added twice is twice in the list and has one row.                       *)
(***************************************************************************)
C7_IsWorkerRow(data, r, w) ==
    data[r][1] = Str(workers[w].name) /\ data[r][2] = Str("")

C7_TaskRowsAfter(data, r) ==
    Cardinality({ q \in (r + 1) .. Len(data) :
                    \A p \in (r + 1) .. q : data[p][2] # Str("") })

C7_OneRowPerEntry ==
    Returned_("generate_data") =>
        \A r \in 4 .. Len(out.result.value.data), w \in DOMAIN workers :
            C7_IsWorkerRow(out.result.value.data, r, w) =>
                C7_TaskRowsAfter(out.result.value.data, r) = Len(workers[w].tasks)

(***************************************************************************)
(* C7, amended: generate_data emits one task row for each task of the      *)
(* worker, however many times the task was added: the task rows that       *)
(* follow the row of a worker are as many as the distinct tasks of the     *)
(* worker's task list; one department with one worker with one task gives  *)
(* six rows.                                                               *)
(***************************************************************************)
C7_OneRowPerTask ==
    Returned_("generate_data") =>
        /\ \A r \in 4 .. Len(out.result.value.data), w \in DOMAIN workers :
              C7_IsWorkerRow(out.result.value.data, r, w) =>
                  C7_TaskRowsAfter(out.result.value.data, r)
                      = Cardinality(Range(workers[w].tasks))
        /\ (/\ Len(departments) = 1
            /\ Len(departments[1].workers) = 1
            /\ Len(workers[departments[1].workers[1]].tasks) = 1)
              => Len(out.result.value.data) = 6

\* a worker whose task was added twice has one task row
C7_Witness ==
    /\ Returned_("generate_data")
    /\ \E r \in 4 .. Len(out.result.value.data), w \in DOMAIN workers :
          /\ C7_IsWorkerRow(out.result.value.data, r, w)
          /\ Len(workers[w].tasks) = 2
          /\ C7_TaskRowsAfter(out.result.value.data, r) = 1

(***************************************************************************)
(* C8: in generate_data(year) every week of the year is attributed to      *)
(* exactly one month: the month that holds its Monday, except that a week  *)
(* whose Monday is in year - 1 is attributed to January and a week whose   *)
(* Sunday is in year + 1 to December.                                      *)
(***************************************************************************)
C8_MonthOfWeek(week, year) ==
    IF YearOf(week[1]) = year - 1 THEN 1
    ELSE IF YearOf(week[2]) = year + 1 THEN 12
    ELSE MonthOf(week[1])

C8_AttributedTo(months_weeks_mapping, week) ==
    { m \in 1 .. 12 : \E k \in DOMAIN months_weeks_mapping[m] :
                          months_weeks_mapping[m][k] = week }

C8_MonthAttribution ==
    Returned_("generate_data") =>
        /\ \A i \in DOMAIN out.result.value.weeks :
              C8_AttributedTo(out.result.value.months_weeks_mapping,
                              out.result.value.weeks[i])
                  = {C8_MonthOfWeek(out.result.value.weeks[i], out.year)}
        /\ \A m \in 1 .. 12 :
              Cardinality(Range(out.result.value.months_weeks_mapping[m]))
                  = Len(out.result.value.months_weeks_mapping[m])

(***************************************************************************)
(* C9: the twelve month regions of merge_data lie in row 2 in the order    *)
(* January to December, each begins where the one before it ends, together *)
(* they cover the week columns 4 .. 3 + N, each spans the columns of the   *)
(* weeks attributed to its month, and the name of the month is in the      *)
(* first column of its region.                                             *)
(***************************************************************************)
C9_Region(merge_data, m) == merge_data[1 + 3 + m]

C9_ColumnsOf(weeks, month_weeks) ==
    { 3 + i : i \in { i \in DOMAIN weeks : weeks[i] \in Range(month_weeks) } }

C9_RegionOfMonth(report, m) ==
    /\ C9_Region(report.merge_data, m)[1] = 2
    /\ C9_Region(report.merge_data, m)[3] = 2
    /\ C9_Region(report.merge_data, m)[2]
          = (IF m = 1 THEN 4 ELSE C9_Region(report.merge_data, m - 1)[4] + 1)
    /\ m = 12 => C9_Region(report.merge_data, m)[4] = 3 + Len(report.weeks)
    /\ C9_Region(report.merge_data, m)[2] .. C9_Region(report.merge_data, m)[4]
          = C9_ColumnsOf(report.weeks, report.months_weeks_mapping[m])
    /\ report.data[2][C9_Region(report.merge_data, m)[2]] = Str(month_name[m])

C9_MonthRegions ==
    Returned_("generate_data") =>
        \A m \in 1 .. 12 : C9_RegionOfMonth(out.result.value, m)

(***************************************************************************)
(* C10: generate_data gives every numeric cell of the rows after the three *)
(* header rows, in the week columns, one named style chosen by the value   *)
(* alone: 'Bad' above 1, 'Neutral' between 0 and 1, 'Good' for any other   *)
(* value, 0 and 1 among them; and the number format of a percentage.       *)
(***************************************************************************)
C10_StyleOf(value) ==
    IF value > Scale THEN "Bad"
    ELSE IF value > 0 /\ value < Scale THEN "Neutral"
    ELSE "Good"

C10_Styled(data, cords, r, c) ==
    /\ Cell(r, c) \in DOMAIN cords
    /\ DOMAIN cords[Cell(r, c)] = {"style", "number_format"}
    /\ cords[Cell(r, c)].style = C10_StyleOf(data[r][c].num)
    /\ cords[Cell(r, c)].number_format = "0.00%"

C10_StyleByValue ==
    Returned_("generate_data") =>
        \A r \in 4 .. Len(out.result.value.data) :
            \A c \in 4 .. Len(out.result.value.data[r]) :
                /\ IsNumber(out.result.value.data[r][c])
                /\ C10_Styled(out.result.value.data, out.result.value.style_data.cords, r, c)

\* a report with the values 0, a half and 1: a department of a worker with
\* one week of work and a worker with none
C10_Witness ==
    /\ Returned_("generate_data")
    /\ \E r \in 4 .. Len(out.result.value.data) :
          /\ out.result.value.data[r][4] = Num(Scale \div 2)
          /\ out.result.value.style_data.cords[Cell(r, 4)].style = "Neutral"
          /\ out.result.value.style_data.cords[Cell(r, 5)].style = "Good"
    /\ \E r \in 4 .. Len(out.result.value.data) :
          /\ out.result.value.data[r][4] = Num(Scale)
          /\ out.result.value.style_data.cords[Cell(r, 4)].style = "Good"

(***************************************************************************)
(* C11: generate_data is a pure function of the entities and of its year   *)
(* argument: a call with the same departments, workers, tasks and year     *)
(* returns the same rows, merge regions and style regions whatever the     *)
(* state held outside its arguments, the module-level YEAR, is.            *)
(***************************************************************************)
C11_SameReport(a, b) ==
    /\ a.raised = b.raised
    /\ a.raised = "" =>
          /\ a.value.data = b.value.data
          /\ a.value.merge_data = b.value.merge_data
          /\ a.value.style_data = b.value.style_data

C11_PureInArguments ==
    Called("generate_data") =>
        \A year_global \in Years :
            C11_SameReport(out.result,
                           generate_data(out.year, year_global,
                                         departments, workers, tasks))

(***************************************************************************)
(* C12: after the loop of main has processed any sequence of rows, every   *)
(* worker is a member of exactly one department, so each accepted task is  *)
(* reported under exactly one department: the departments with a worker    *)
(* that holds the task are one.                                            *)
(***************************************************************************)
C12_DepartmentsOf(w) ==
    { d \in DOMAIN departments :
        \E k \in DOMAIN departments[d].workers : departments[d].workers[k] = w }

C12_ReportedUnder(t) ==
    UNION { C12_DepartmentsOf(w) :
            w \in { w \in DOMAIN workers : t \in Range(workers[w].tasks) } }

C12_OneDepartmentPerWorker ==
    pc = "build" =>
        /\ \A w \in DOMAIN workers : Cardinality(C12_DepartmentsOf(w)) = 1
        /\ \A t \in DOMAIN tasks : Cardinality(C12_ReportedUnder(t)) = 1

(***************************************************************************)
(* C13: for every task with date_start <= date_end inside the target year, *)
(* the Monday of date_start's week is in the week list of the year and the *)
(* indices start_index .. start_index + weeks_for_task - 1 are within      *)
(* 0 .. N - 1: get_workload_by_tasks_for_year never misses the lookup      *)
(* (ValueError) nor writes out of range (IndexError), and each sequence it *)
(* returns has N entries, N being the number of weeks of the year.         *)
(***************************************************************************)
C13_TaskInRange(task, weeks) ==
    /\ WeekIndexOfDay(weeks, task.date_start) \in 0 .. (Len(weeks) - 1)
    /\ WeekIndexOfDay(weeks, task.date_start)
          + CeilWeeks(task.date_end - (task.date_start - Weekday(task.date_start)))
          <= Len(weeks)

C13_CallInRange(worker, result, weeks) ==
    /\ result.raised \notin {"ValueError", "IndexError"}
    /\ \A k \in DOMAIN worker.tasks : C13_TaskInRange(tasks[worker.tasks[k]], weeks)
    /\ result.raised = "" =>
          \A k \in DOMAIN result.value : Len(result.value[k].workload) = Len(weeks)

C13_IndexInRange ==
    (Called("get_workload_by_tasks_for_year") /\ out.year = YEAR) =>
        \A weeks \in {get_weeks_for_year(out.year)} :
            C13_CallInRange(workers[out.worker], out.result, weeks)

\* a task from the first of January, whose Monday is in the year before, to
\* the 31st of December: the first and the last week of the list are written
C13_Witness ==
    /\ Returned_("get_workload_by_tasks_for_year")
    /\ out.year = YEAR
    /\ \E k \in DOMAIN out.result.value :
          /\ YearOf(TaskStartMonday(tasks[out.result.value[k].task])) = YEAR - 1
          /\ tasks[out.result.value[k].task].date_end = Ordinal(YEAR, 12, 31)
          /\ out.result.value[k].workload[1] > 0
          /\ out.result.value[k].workload[Len(out.result.value[k].workload)] > 0

(***************************************************************************)
(* C14: for every task with date_start <= date_end and a positive          *)
(* estimate, get_workload_by_tasks_for_year computes weeks_for_task >= 1,  *)
(* so the division of line 196 is defined and the call ends without an     *)
(* arithmetic error.                                                       *)
(***************************************************************************)
C14_Computes(task) ==
    (task.date_start <= task.date_end /\ task.estimate > 0) =>
        WeeksForTask(task, TaskStartMonday(task)) >= 1

C14_WeeksForTaskPositive ==
    Called("get_workload_by_tasks_for_year") =>
        /\ \A k \in DOMAIN workers[out.worker].tasks :
              C14_Computes(tasks[workers[out.worker].tasks[k]])
        /\ out.result.raised # "ZeroDivisionError"

(***************************************************************************)
(* C15: every style region of generate_data that is keyed by cords (the    *)
(* font regions of the headers, the font cells of the department names,    *)
(* the styles by cell value) lies inside the grid: its rows are within     *)
(* 1 .. len(rows) and its columns within 1 .. 3 + N, N being the number of *)
(* weeks.                                                                  *)
(***************************************************************************)
C15_Inside(cords, n_rows, n_cols) ==
    /\ 1 <= cords[1][1] /\ cords[1][1] <= cords[2][1] /\ cords[2][1] <= n_rows
    /\ 1 <= cords[1][2] /\ cords[1][2] <= cords[2][2] /\ cords[2][2] <= n_cols

C15_RegionsInsideGrid ==
    Returned_("generate_data") =>
        \A cords \in DOMAIN out.result.value.style_data.cords :
            C15_Inside(cords, Len(out.result.value.data),
                       3 + Len(out.result.value.weeks))

====
